---- MODULE Spec2Model ----
(***************************************************************************)
(* State-diff aggregator (index.ts): the merge computeNetStateDiff and the *)
(* run of main around it (input list, resolution of each line, ordering    *)
(* check, merge, output file).                                             *)
(***************************************************************************)
EXTENDS Integers, Sequences, FiniteSets, TLC

VARIABLES
    \* ---- driver of the merge as a pure function
    input,        \* stateDiffs handed to computeNetStateDiff
    stage,        \* "input" | "merged" | "remerged" | "collapsed" | "idle"
    split,        \* length of the prefix collapsed first (stage "collapsed")
    result,       \* outcome of the last computeNetStateDiff call
    prev,         \* outcome of the call on the whole input, once a second is made
    \* ---- the run of main
    pc,           \* position of main
    argvPath,     \* process.argv[2]
    fileContent,  \* characters of the input list file
    lines,        \* const lines
    lineIdx,      \* position of the for-of loop over lines (1-based)
    requests,     \* arguments getStateDiff was called with, in call order
    responses,    \* what each getStateDiff call returned, in call order
    txData,       \* const txData
    orderCheck,   \* "none" | "passed" | "failed"
    mergeCalls,   \* number of computeNetStateDiff calls made by main
    netStateDiff, \* outcome of main's computeNetStateDiff call
    outFile,      \* content of the output file, or NoFile
    error,        \* what main threw, "none" if nothing
    exitCode      \* process exit status, -1 while running

mergeVars == <<input, stage, split, result, prev>>
mainVars == <<pc, argvPath, fileContent, lines, lineIdx, requests, responses,
              txData, orderCheck, mergeCalls, netStateDiff, outFile, error,
              exitCode>>
vars == <<mergeVars, mainVars>>

(***************************************************************************)
(* Data: Address and Slot are 0x-prefixed strings; the two addresses and   *)
(* the two keys differ only in letter case.                                *)
(***************************************************************************)
Addresses == {"0xa1", "0xA1"}
Keys == {"0x0b", "0x0B"}
Values == {"0x00", "0x01"}

Raw == [address : Addresses, key : Keys, original : Values, dirty : Values]

StateDiff(a, raws) ==
    [address |-> a, raw |-> raws, soltype |-> "null", original |-> "null",
     dirty |-> "null"]

\* Letter-case folding of the identifiers above; the code never folds case.
Lower(s) ==
    CASE s = "0xA1" -> "0xa1"
      [] s = "0x0B" -> "0x0b"
      [] OTHER -> s

(***************************************************************************)
(* computeNetStateDiff.  The accumulator netStateDiff is an object of      *)
(* objects; its keys are 0x-prefixed strings, so Object.entries lists them *)
(* in insertion order.  It is modelled as a sequence of                    *)
(* [address, slots], slots a sequence of [key, original, dirty].           *)
(***************************************************************************)
AddressIndexIgnoreCase(net, a) ==
    LET S == {i \in DOMAIN net : Lower(net[i].address) = Lower(a)}
    IN  IF S = {} THEN 0 ELSE CHOOSE i \in S : TRUE

\* position of property `a` of netStateDiff, 0 if netStateDiff[a] is undefined
AddressIndex(net, a) ==
    LET S == {i \in DOMAIN net : net[i].address = a}
    IN  IF S = {} THEN 0 ELSE CHOOSE i \in S : TRUE

\* position of property `k` of netStateDiff[address], 0 if undefined
KeyIndex(slots, k) ==
    LET S == {i \in DOMAIN slots : slots[i].key = k}
    IN  IF S = {} THEN 0 ELSE CHOOSE i \in S : TRUE

InitAddressPrepend(net, raw) ==
    IF AddressIndex(net, raw.address) = 0
    THEN <<[address |-> raw.address, slots |-> <<>>]>> \o net
    ELSE net

\* if (!netStateDiff[raw.address]) netStateDiff[raw.address] = {}
InitAddress(net, raw) ==
    IF AddressIndex(net, raw.address) = 0
    THEN Append(net, [address |-> raw.address, slots |-> <<>>])
    ELSE net

InitKeyPrepend(slots, raw) ==
    IF KeyIndex(slots, raw.key) = 0
    THEN <<[key |-> raw.key, original |-> raw.original, dirty |-> raw.dirty]>>
         \o slots
    ELSE slots

\* if (!netStateDiff[raw.address][raw.key]) ... = { original, dirty }
InitKey(slots, raw) ==
    IF KeyIndex(slots, raw.key) = 0
    THEN Append(slots,
                [key |-> raw.key, original |-> raw.original, dirty |-> raw.dirty])
    ELSE slots

\* netStateDiff[raw.address][raw.key].dirty = raw.dirty
OverwriteDirty(slots, raw) ==
    [slots EXCEPT ![KeyIndex(slots, raw.key)].dirty = raw.dirty]

\* body of `for (const raw of stateDiff.raw)`
ApplyRaw(net, raw) ==
    LET net1 == InitAddress(net, raw)
        ai == AddressIndex(net1, raw.address)
    IN  [net1 EXCEPT ![ai].slots = OverwriteDirty(InitKey(@, raw), raw)]

RECURSIVE ApplyRaws(_, _, _)
ApplyRaws(net, raws, j) ==
    IF j > Len(raws) THEN net ELSE ApplyRaws(ApplyRaw(net, raws[j]), raws, j + 1)

RawCountOkAlways(stateDiff) == TRUE

\* negation of `stateDiff.raw.length !== 1`
RawCountOk(stateDiff) == Len(stateDiff.raw) = 1

\* `for (const stateDiff of stateDiffs)`: the accumulator, or the throw
RECURSIVE MergeLoop(_, _, _)
MergeLoop(net, stateDiffs, i) ==
    IF i > Len(stateDiffs) THEN [thrown |-> FALSE, net |-> net]
    ELSE IF ~RawCountOk(stateDiffs[i]) THEN [thrown |-> TRUE, net |-> <<>>]
    ELSE MergeLoop(ApplyRaws(net, stateDiffs[i].raw, 1), stateDiffs, i + 1)

OutRecordRawAddressMissing(address, slot) ==
    StateDiff(address,
              <<[address |-> "undefined", key |-> slot.key,
                 original |-> slot.original, dirty |-> slot.dirty]>>)

\* result.push({ address, raw: [{ address, key, original, dirty }], ... })
OutRecord(address, slot) ==
    StateDiff(address,
              <<[address |-> address, key |-> slot.key,
                 original |-> slot.original, dirty |-> slot.dirty]>>)

RECURSIVE SlotRecords(_, _, _)
SlotRecords(address, slots, j) ==
    IF j > Len(slots) THEN <<>>
    ELSE <<OutRecord(address, slots[j])>> \o SlotRecords(address, slots, j + 1)

SlotRecordsElided(address, slots, j) ==
    SelectSeq(SlotRecords(address, slots, j),
              LAMBDA r : r.raw[1].original # r.raw[1].dirty)

\* `for (const [key, { original, dirty }] of Object.entries(keyAndStorage))`
KeyRecords(address, slots, j) == SlotRecords(address, slots, j)

\* `for (const [address, keyAndStorage] of Object.entries(netStateDiff))`
RECURSIVE ToTenderly(_, _)
ToTenderly(net, i) ==
    IF i > Len(net) THEN <<>>
    ELSE KeyRecords(net[i].address, net[i].slots, 1) \o ToTenderly(net, i + 1)

\* [thrown |-> TRUE] stands for the Error thrown; result is then not returned.
computeNetStateDiff(stateDiffs) ==
    LET m == MergeLoop(<<>>, stateDiffs, 1)
    IN  IF m.thrown THEN [thrown |-> TRUE, result |-> <<>>]
        ELSE [thrown |-> FALSE, result |-> ToTenderly(m.net, 1)]

(***************************************************************************)
(* The merge as a pure function: Init draws the stateDiffs, the actions    *)
(* call computeNetStateDiff on them, on its own output, and on a collapsed *)
(* prefix followed by the rest.                                            *)
(***************************************************************************)
MaxEntries == 3

Idle == [thrown |-> FALSE, result |-> <<>>]

NoFile == [written |-> FALSE, content |-> <<>>]

RawA == [address |-> "0xa1", key |-> "0x0b", original |-> "0x00", dirty |-> "0x01"]
RawB == [address |-> "0xa1", key |-> "0x0B", original |-> "0x01", dirty |-> "0x00"]

\* entries of Tenderly's shape, two whose outer address is not the raw diff's,
\* and two that break the raw-count contract
MergeEntries ==
    {StateDiff(r.address, <<r>>) : r \in Raw}
    \cup {StateDiff("0xA1", <<RawA>>), StateDiff("0xA1", <<RawB>>)}
    \cup {StateDiff("0xa1", <<>>), StateDiff("0xa1", <<RawA, RawB>>)}

MergeInputs == UNION {[1..n -> MergeEntries] : n \in 0..MaxEntries}

MainIdle ==
    /\ pc = "idle" /\ argvPath = "" /\ fileContent = <<>> /\ lines = <<>>
    /\ lineIdx = 0 /\ requests = <<>> /\ responses = <<>> /\ txData = <<>>
    /\ orderCheck = "none" /\ mergeCalls = 0 /\ netStateDiff = Idle
    /\ outFile = NoFile /\ error = "none" /\ exitCode = -1

InitMerge ==
    /\ input \in MergeInputs
    /\ stage = "input"
    /\ split = 0
    /\ result = Idle
    /\ prev = Idle
    /\ MainIdle

\* computeNetStateDiff(stateDiffs)
Merge ==
    /\ stage = "input"
    /\ result' = computeNetStateDiff(input)
    /\ stage' = "merged"
    /\ UNCHANGED <<input, split, prev, mainVars>>

\* computeNetStateDiff(computeNetStateDiff(stateDiffs))
Remerge ==
    /\ stage = "merged"
    /\ ~result.thrown
    /\ prev' = result
    /\ result' = computeNetStateDiff(result.result)
    /\ stage' = "remerged"
    /\ UNCHANGED <<input, split, mainVars>>

\* computeNetStateDiff(computeNetStateDiff(A).concat(B)), A the first n entries
MergeCollapsed(n) ==
    /\ stage = "merged"
    /\ ~result.thrown
    /\ LET A == SubSeq(input, 1, n)
           B == SubSeq(input, n + 1, Len(input))
       IN  result' = computeNetStateDiff(computeNetStateDiff(A).result \o B)
    /\ prev' = result
    /\ split' = n
    /\ stage' = "collapsed"
    /\ UNCHANGED <<input, mainVars>>

NextMerge ==
    \/ Merge
    \/ Remerge
    \/ \E n \in 0..Len(input) : MergeCollapsed(n)

SpecMerge == InitMerge /\ [][NextMerge]_vars

(***************************************************************************)
(* main.  Strings are sequences of one-character strings.                  *)
(***************************************************************************)
NoTx == [stateDiff |-> <<>>, blockNumber |-> 0]

\* String.prototype.indexOf, 1-based, 0 if c does not occur
FirstIndexOf(s, c) ==
    LET S == {i \in DOMAIN s : s[i] = c}
    IN  IF S = {} THEN 0 ELSE CHOOSE i \in S : \A j \in S : i <= j

\* String.prototype.split with a one-character separator
RECURSIVE Split(_, _)
Split(s, c) ==
    LET i == FirstIndexOf(s, c)
    IN  IF i = 0 THEN <<s>>
        ELSE <<SubSeq(s, 1, i - 1)>> \o Split(SubSeq(s, i + 1, Len(s)), c)

KeepAll(ss) == ss

\* Array.prototype.filter(Boolean) on strings: the empty string is falsy
FilterBoolean(ss) == SelectSeq(ss, LAMBDA l : l # <<>>)

\* String.prototype.startsWith
StartsWith(s, prefix) ==
    /\ Len(s) >= Len(prefix)
    /\ SubSeq(s, 1, Len(prefix)) = prefix

\* line.startsWith("#") || line.startsWith("//")
IsComment(line) == StartsWith(line, <<"#">>) \/ StartsWith(line, <<"/", "/">>)

\* const [transactionHashOrFilePath] = line.split(" ")
FirstToken(line) == Split(line, " ")[1]

OrderingViolationStrict(tx, i) ==
    IF \E j \in 2..Len(tx) : tx[j].blockNumber <= tx[j - 1].blockNumber
    THEN CHOOSE j \in 2..Len(tx) : tx[j].blockNumber <= tx[j - 1].blockNumber
    ELSE 0

OrderingViolationNever(tx, i) == 0

\* the loop `for (let i = 1; i < txData.length; i++)` from position i on
\* (1-based): the position at which it throws, 0 if it runs to the end
RECURSIVE OrderingViolation(_, _)
OrderingViolation(tx, i) ==
    IF i > Len(tx) THEN 0
    ELSE IF tx[i].blockNumber < tx[i - 1].blockNumber THEN i
    ELSE OrderingViolation(tx, i + 1)

\* txData.flatMap((data) => data.stateDiff)
RECURSIVE Flatten(_, _)
Flatten(tx, i) ==
    IF i > Len(tx) THEN <<>> ELSE tx[i].stateDiff \o Flatten(tx, i + 1)

\* a throw inside main: the rejection reaches main().catch
Throw(e) == pc' = "thrown" /\ error' = e

\* if (!filePath) throw new Error("Please provide a file path as an argument.")
CheckArgs ==
    /\ pc = "args"
    /\ IF argvPath = "" THEN Throw("NoArg")
       ELSE pc' = "readList" /\ UNCHANGED error
    /\ UNCHANGED <<argvPath, fileContent, lines, lineIdx, requests, responses,
                   txData, orderCheck, mergeCalls, netStateDiff, outFile,
                   exitCode, mergeVars>>

\* readFile(filePath) rejects
ReadListFails ==
    /\ pc = "readList"
    /\ Throw("ListRead")
    /\ UNCHANGED <<argvPath, fileContent, lines, lineIdx, requests, responses,
                   txData, orderCheck, mergeCalls, netStateDiff, outFile,
                   exitCode, mergeVars>>

\* const lines = fileContent.split("\n").filter(Boolean)
ReadList ==
    /\ pc = "readList"
    /\ lines' = FilterBoolean(Split(fileContent, "\n"))
    /\ lineIdx' = 1
    /\ pc' = "loop"
    /\ UNCHANGED <<argvPath, fileContent, requests, responses, txData,
                   orderCheck, mergeCalls, netStateDiff, outFile, error,
                   exitCode, mergeVars>>

\* an iteration of `for (const line of lines)` that hits `continue`
SkipComment ==
    /\ pc = "loop"
    /\ lineIdx <= Len(lines)
    /\ IsComment(lines[lineIdx])
    /\ lineIdx' = lineIdx + 1
    /\ UNCHANGED <<pc, argvPath, fileContent, lines, requests, responses,
                   txData, orderCheck, mergeCalls, netStateDiff, outFile,
                   error, exitCode, mergeVars>>

\* an iteration that awaits getStateDiff; R is what getStateDiff may answer
ResolveLine(R) ==
    /\ pc = "loop"
    /\ lineIdx <= Len(lines)
    /\ ~IsComment(lines[lineIdx])
    /\ \E r \in R :
          /\ requests' = Append(requests, FirstToken(lines[lineIdx]))
          /\ responses' = Append(responses, r)
          /\ IF r.ok
             THEN /\ txData' = Append(txData, r.tx)
                  /\ lineIdx' = lineIdx + 1
                  /\ UNCHANGED <<pc, error>>
             ELSE /\ Throw("Resolution")
                  /\ UNCHANGED <<txData, lineIdx>>
    /\ UNCHANGED <<argvPath, fileContent, lines, orderCheck, mergeCalls,
                   netStateDiff, outFile, exitCode, mergeVars>>

\* the block-number assertion over the whole of txData
CheckOrdering ==
    /\ pc = "loop"
    /\ lineIdx > Len(lines)
    /\ IF OrderingViolation(txData, 2) # 0
       THEN orderCheck' = "failed" /\ Throw("Ordering")
       ELSE orderCheck' = "passed" /\ pc' = "merge" /\ UNCHANGED error
    /\ UNCHANGED <<argvPath, fileContent, lines, lineIdx, requests, responses,
                   txData, mergeCalls, netStateDiff, outFile, exitCode,
                   mergeVars>>

\* const netStateDiff = computeNetStateDiff(txData.flatMap(...))
MergeStep ==
    /\ pc = "merge"
    /\ mergeCalls' = mergeCalls + 1
    /\ netStateDiff' = computeNetStateDiff(Flatten(txData, 1))
    /\ IF netStateDiff'.thrown THEN Throw("RawCount")
       ELSE pc' = "write" /\ UNCHANGED error
    /\ UNCHANGED <<argvPath, fileContent, lines, lineIdx, requests, responses,
                   txData, orderCheck, outFile, exitCode, mergeVars>>

\* exists(outDir) or mkdir(outDir) rejects
WriteFails ==
    /\ pc = "write"
    /\ Throw("Write")
    /\ UNCHANGED <<argvPath, fileContent, lines, lineIdx, requests, responses,
                   txData, orderCheck, mergeCalls, netStateDiff, outFile,
                   exitCode, mergeVars>>

\* writeFile(outfile, JSON.stringify(netStateDiff, null, 2)); main resolves
WriteOutput ==
    /\ pc = "write"
    /\ outFile' = [written |-> TRUE, content |-> netStateDiff.result]
    /\ pc' = "done"
    /\ exitCode' = 0
    /\ UNCHANGED <<argvPath, fileContent, lines, lineIdx, requests, responses,
                   txData, orderCheck, mergeCalls, netStateDiff, error,
                   mergeVars>>

CatchHandlerExitZero ==
    /\ pc = "thrown"
    /\ exitCode' = 0
    /\ pc' = "exited"
    /\ UNCHANGED <<argvPath, fileContent, lines, lineIdx, requests, responses,
                   txData, orderCheck, mergeCalls, netStateDiff, outFile,
                   error, mergeVars>>

\* main().catch((error) => { console.error(...); process.exit(1); })
CatchHandler ==
    /\ pc = "thrown"
    /\ exitCode' = 1
    /\ pc' = "exited"
    /\ UNCHANGED <<argvPath, fileContent, lines, lineIdx, requests, responses,
                   txData, orderCheck, mergeCalls, netStateDiff, outFile,
                   error, mergeVars>>

MergeIdle ==
    /\ input = <<>> /\ stage = "idle" /\ split = 0 /\ result = Idle
    /\ prev = Idle

MainStart ==
    /\ pc = "args" /\ lines = <<>> /\ lineIdx = 0 /\ requests = <<>>
    /\ responses = <<>> /\ txData = <<>> /\ orderCheck = "none"
    /\ mergeCalls = 0 /\ netStateDiff = Idle /\ outFile = NoFile
    /\ error = "none" /\ exitCode = -1

Failed == [ok |-> FALSE, tx |-> NoTx]

Resolved(sd, bn) == [ok |-> TRUE, tx |-> [stateDiff |-> sd, blockNumber |-> bn]]

(***************************************************************************)
(* Runs of main over lists of up to MaxTx transactions, each resolved to   *)
(* one of a few state diffs (some breaking the raw-count contract) in one  *)
(* of three blocks, or not resolved at all.                                *)
(***************************************************************************)
MaxTx == 3

Blocks == {5, 6, 7}

E1 == StateDiff("0xa1", <<RawA>>)
E2 == StateDiff("0xa1", <<[RawA EXCEPT !.original = "0x01", !.dirty = "0x00"]>>)
EZero == StateDiff("0xa1", <<>>)
ETwo == StateDiff("0xa1", <<RawA, RawB>>)

MainStateDiffs ==
    {<<>>, <<E1>>, <<EZero>>, <<E1, E2>>, <<E2, ETwo>>, <<E1, E2, EZero>>}

MainResponses ==
    {Failed} \cup {Resolved(sd, bn) : sd \in MainStateDiffs, bn \in Blocks}

\* k lines "0x # c", the last one without its newline
RECURSIVE TokenLines(_)
TokenLines(k) ==
    IF k = 0 THEN <<>>
    ELSE IF k = 1 THEN <<"0", "x", " ", "#", " ", "c">>
    ELSE <<"0", "x", " ", "#", " ", "c", "\n">> \o TokenLines(k - 1)

\* a comment line and a blank line before the entries, or nothing
Headers == {<<>>, <<"#", " ", "c", "\n", "\n">>}

InitMain ==
    /\ argvPath \in {"", "data/list.txt"}
    /\ fileContent \in {h \o TokenLines(k) : h \in Headers, k \in 0..MaxTx}
    /\ MainStart
    /\ MergeIdle

NextMain ==
    \/ CheckArgs
    \/ ReadListFails
    \/ ReadList
    \/ SkipComment
    \/ ResolveLine(MainResponses)
    \/ CheckOrdering
    \/ MergeStep
    \/ WriteFails
    \/ WriteOutput
    \/ CatchHandler

SpecMain == InitMain /\ [][NextMain]_vars

(***************************************************************************)
(* Properties of the merge, stated on the input and the returned records.  *)
(***************************************************************************)
AllRawCountOne(sd) == \A i \in DOMAIN sd : Len(sd[i].raw) = 1

PairOf(e) == <<e.raw[1].address, e.raw[1].key>>

Pairs(sd) == {PairOf(sd[i]) : i \in DOMAIN sd}

Occurrences(sd, p) == {i \in DOMAIN sd : PairOf(sd[i]) = p}

Min(S) == CHOOSE x \in S : \A y \in S : x <= y

Max(S) == CHOOSE x \in S : \A y \in S : y <= x

FirstOfAddress(sd, a) == Min({i \in DOMAIN sd : sd[i].raw[1].address = a})

\* C1: for an input whose entries all have exactly one raw diff, the merge
\* returns exactly one record per distinct (address, key) pair of the input,
\* with the original of the first entry of that pair and the dirty of the
\* last one; pairs are told apart by exact string equality.
C1_FirstOriginalLastDirty ==
    (stage = "merged" /\ AllRawCountOne(input)) =>
        /\ ~result.thrown
        /\ AllRawCountOne(result.result)
        /\ Pairs(result.result) = Pairs(input)
        /\ \A p \in Pairs(input) :
              /\ Cardinality(Occurrences(result.result, p)) = 1
              /\ \A j \in Occurrences(result.result, p) :
                    /\ result.result[j].raw[1].original
                         = input[Min(Occurrences(input, p))].raw[1].original
                    /\ result.result[j].raw[1].dirty
                         = input[Max(Occurrences(input, p))].raw[1].dirty

\* two writes of one pair with different originals and different dirties, and
\* between them a write of a pair that differs from it in letter case only
C1_Witness ==
    /\ stage = "merged"
    /\ Len(input) = 3
    /\ AllRawCountOne(input)
    /\ PairOf(input[1]) = PairOf(input[3])
    /\ PairOf(input[2]) # PairOf(input[1])
    /\ Lower(PairOf(input[2])[1]) = Lower(PairOf(input[1])[1])
    /\ Lower(PairOf(input[2])[2]) = Lower(PairOf(input[1])[2])
    /\ input[1].raw[1].original # input[3].raw[1].original
    /\ input[1].raw[1].dirty # input[3].raw[1].dirty
    /\ Len(result.result) = 2

\* C2: the records are ordered by the first occurrence of their address in
\* the input and, within one address, by the first occurrence of their key.
C2_FirstSeenOrder ==
    (stage = "merged" /\ AllRawCountOne(input)) =>
        \A j, k \in DOMAIN result.result :
            j < k =>
                LET pj == PairOf(result.result[j])
                    pk == PairOf(result.result[k])
                IN  \/ FirstOfAddress(input, pj[1]) < FirstOfAddress(input, pk[1])
                    \/ /\ pj[1] = pk[1]
                       /\ Min(Occurrences(input, pj)) < Min(Occurrences(input, pk))

\* input [a1.k1, a2.k, a1.k2] gives [a1.k1, a1.k2, a2.k]
C2_Witness ==
    /\ stage = "merged"
    /\ Len(input) = 3
    /\ AllRawCountOne(input)
    /\ PairOf(input[1])[1] = PairOf(input[3])[1]
    /\ PairOf(input[1])[2] # PairOf(input[3])[2]
    /\ PairOf(input[2])[1] # PairOf(input[1])[1]
    /\ Len(result.result) = 3
    /\ PairOf(result.result[1]) = PairOf(input[1])
    /\ PairOf(result.result[2]) = PairOf(input[3])
    /\ PairOf(result.result[3]) = PairOf(input[2])

\* C7: a pair whose net original equals its net dirty is still a record, and
\* there are as many records as distinct pairs, whatever the values.
C7_NoElision ==
    (stage = "merged" /\ AllRawCountOne(input)) =>
        /\ Len(result.result) = Cardinality(Pairs(input))
        /\ \A p \in Pairs(input) :
              LET o == input[Min(Occurrences(input, p))].raw[1].original
                  d == input[Max(Occurrences(input, p))].raw[1].dirty
              IN  o = d =>
                    \E j \in DOMAIN result.result :
                        /\ PairOf(result.result[j]) = p
                        /\ result.result[j].raw[1].original = o
                        /\ result.result[j].raw[1].dirty = o

\* a slot written A -> B and then B -> A is the one record (A, A)
C7_Witness ==
    /\ stage = "merged"
    /\ Len(input) = 2
    /\ AllRawCountOne(input)
    /\ PairOf(input[1]) = PairOf(input[2])
    /\ input[1].raw[1].original # input[1].raw[1].dirty
    /\ input[2].raw[1].original = input[1].raw[1].dirty
    /\ input[2].raw[1].dirty = input[1].raw[1].original
    /\ Len(result.result) = 1
    /\ result.result[1].raw[1].original = result.result[1].raw[1].dirty

ValidRecord(e) == Len(e.raw) = 1 /\ e.raw[1].address = e.address

\* C8: the output of the merge is a valid input (one raw diff per record,
\* with the record's address) and merging it again returns it unchanged,
\* record for record and in the same order.
C8_Idempotent ==
    /\ (stage = "merged" /\ ~result.thrown) =>
          \A j \in DOMAIN result.result : ValidRecord(result.result[j])
    /\ stage = "remerged" => (~result.thrown /\ result.result = prev.result)

\* a second merge of an output of three records, from an input with an entry
\* whose outer address is not its raw diff's address
C8_Witness ==
    /\ stage = "remerged"
    /\ Len(prev.result) = 3
    /\ \E i \in DOMAIN input : ~ValidRecord(input[i])
    /\ result = prev

\* C10: collapsing a prefix A of the input first and merging the collapsed
\* records followed by the rest B gives the merge of the whole input A \o B.
C10_Compositional ==
    stage = "collapsed" => (~result.thrown /\ result.result = prev.result)

\* a proper prefix of two entries collapsed to one record, a third entry on
\* the same pair after it
C10_Witness ==
    /\ stage = "collapsed"
    /\ split = 2
    /\ Len(input) = 3
    /\ PairOf(input[1]) = PairOf(input[2])
    /\ PairOf(input[2]) = PairOf(input[3])
    /\ input[1].raw[1].original # input[3].raw[1].original
    /\ input[2].raw[1].dirty # input[3].raw[1].dirty
    /\ result = prev
    /\ Len(result.result) = 1

(***************************************************************************)
(* Runs of main over every list file of up to MaxChars characters, each    *)
(* line resolved to one of two transactions or not at all.                 *)
(***************************************************************************)
MaxChars == 5

Chars == {"a", "#", "/", " ", "\t", "\n"}

ListContents == UNION {[1..n -> Chars] : n \in 0..MaxChars}

LineResponses == {Failed, Resolved(<<>>, 5), Resolved(<<E1>>, 6)}

InitLines ==
    /\ argvPath \in {"", "data/list.txt"}
    /\ fileContent \in ListContents
    /\ MainStart
    /\ MergeIdle

NextLines ==
    \/ CheckArgs
    \/ ReadListFails
    \/ ReadList
    \/ SkipComment
    \/ ResolveLine(LineResponses)
    \/ CheckOrdering
    \/ MergeStep
    \/ WriteFails
    \/ WriteOutput
    \/ CatchHandler

SpecLines == InitLines /\ [][NextLines]_vars

(***************************************************************************)
(* Properties of a run of main.                                            *)
(***************************************************************************)
AdjacentDecrease(tx) ==
    \E i \in 2..Len(tx) : tx[i].blockNumber < tx[i - 1].blockNumber

NonDecreasing(tx) ==
    \A i, j \in DOMAIN tx : i < j => tx[i].blockNumber <= tx[j].blockNumber

AllLinesDone == pc # "args" /\ pc # "readList" /\ lineIdx > Len(lines)

BadEntries(sd) == {i \in DOMAIN sd : Len(sd[i].raw) # 1}

\* C3: when an entry of the flattened input has a raw-diff count other than
\* 1, main's computeNetStateDiff call throws and returns no records, wherever
\* the entry is, and the run writes no output file.
C3_RawCountAborts ==
    BadEntries(Flatten(txData, 1)) # {} =>
        /\ ~outFile.written
        /\ pc # "write" /\ pc # "done"
        /\ mergeCalls > 0 =>
              /\ netStateDiff.thrown
              /\ netStateDiff.result = <<>>
              /\ error = "RawCount"

\* the first offending entry is the third or a later one of the flattened
\* input, and the run has ended
C3_Witness ==
    /\ pc = "exited"
    /\ error = "RawCount"
    /\ mergeCalls = 1
    /\ BadEntries(Flatten(txData, 1)) # {}
    /\ \A i \in BadEntries(Flatten(txData, 1)) : i >= 3
    /\ ~outFile.written

\* C4: the ordering check fails exactly when some block number is smaller
\* than the one before it, and passes exactly when the block numbers never
\* decrease over the whole sequence; equal neighbours, the empty and the
\* one-element sequence pass.
C4_OrderingCheck ==
    orderCheck # "none" =>
        /\ orderCheck = "failed" <=> AdjacentDecrease(txData)
        /\ orderCheck = "passed" <=> NonDecreasing(txData)
        /\ orderCheck = "failed" => error = "Ordering"
        /\ Len(txData) <= 1 => orderCheck = "passed"

\* three transactions, the first two in the same block, pass
C4_Witness ==
    /\ orderCheck = "passed"
    /\ Len(txData) = 3
    /\ txData[1].blockNumber = txData[2].blockNumber
    /\ txData[2].blockNumber < txData[3].blockNumber

\* C5: main calls computeNetStateDiff only once the ordering check has
\* passed for all resolved transactions; when the block numbers decrease
\* somewhere the run ends with the ordering error and the merge is never
\* started, also when an entry breaks the raw-count contract.
C5_MergeAfterOrdering ==
    /\ mergeCalls > 0 =>
          /\ orderCheck = "passed"
          /\ AllLinesDone
          /\ NonDecreasing(txData)
    /\ (AllLinesDone /\ AdjacentDecrease(txData)) =>
          /\ mergeCalls = 0
          /\ netStateDiff = Idle
          /\ pc = "loop" \/ (pc \in {"thrown", "exited"} /\ error = "Ordering")

\* blocks [5, 7, 6] with an entry breaking the raw-count contract
C5_Witness ==
    /\ pc = "exited"
    /\ error = "Ordering"
    /\ Len(txData) = 3
    /\ txData[1].blockNumber = 5
    /\ txData[2].blockNumber = 7
    /\ txData[3].blockNumber = 6
    /\ BadEntries(Flatten(txData, 1)) # {}
    /\ mergeCalls = 0

\* C6: the output file is written only when the argument check, every
\* resolution, the ordering check and the merge have succeeded; when any
\* stage fails no file is written and the process exits with status 1.
C6_AllOrNothing ==
    /\ outFile.written =>
          /\ argvPath # ""
          /\ AllLinesDone
          /\ \A i \in DOMAIN responses : responses[i].ok
          /\ NonDecreasing(txData)
          /\ BadEntries(Flatten(txData, 1)) = {}
          /\ mergeCalls = 1
          /\ ~netStateDiff.thrown
          /\ outFile.content = netStateDiff.result
          /\ error = "none"
          /\ exitCode = 0
    /\ ( \/ error # "none"
         \/ argvPath = ""
         \/ \E i \in DOMAIN responses : ~responses[i].ok
         \/ AdjacentDecrease(txData)
         \/ BadEntries(Flatten(txData, 1)) # {} ) =>
          /\ ~outFile.written
          /\ exitCode # 0
          /\ pc \in {"done", "exited"} => (pc = "exited" /\ exitCode = 1)
    /\ error # "none" => pc \in {"thrown", "exited"}

\* the third resolution fails after two that succeeded
C6_Witness ==
    /\ pc = "exited"
    /\ error = "Resolution"
    /\ Len(txData) = 2
    /\ Len(responses) = 3
    /\ ~outFile.written
    /\ exitCode = 1

(***************************************************************************)
(* Properties of the input-list handling, stated on the characters of the  *)
(* file: a line is a maximal non-empty run of characters other than "\n".  *)
(***************************************************************************)
IsLine(c, s, e) ==
    /\ s <= e
    /\ \A i \in s..e : c[i] # "\n"
    /\ s = 1 \/ c[s - 1] = "\n"
    /\ e = Len(c) \/ c[e + 1] = "\n"

LineStarts(c) == {s \in DOMAIN c : \E e \in DOMAIN c : IsLine(c, s, e)}

LineEnd(c, s) == CHOOSE e \in DOMAIN c : IsLine(c, s, e)

CommentAt(c, s) ==
    \/ c[s] = "#"
    \/ s < LineEnd(c, s) /\ c[s] = "/" /\ c[s + 1] = "/"

\* the characters from position s up to the first character of Delims, or
\* up to position e when there is none
TokenFrom(c, s, e, Delims) ==
    LET stops == {i \in s..e : c[i] \in Delims}
    IN  IF stops = {} THEN SubSeq(c, s, e) ELSE SubSeq(c, s, Min(stops) - 1)

\* the part of the line at s before its first character of Delims
TokenAt(c, s, Delims) == TokenFrom(c, s, LineEnd(c, s), Delims)

\* the first token of the line at s when Delims delimit tokens
FirstTokenAt(c, s, Delims) ==
    LET body == {i \in s..LineEnd(c, s) : c[i] \notin Delims}
    IN  TokenFrom(c, Min(body), LineEnd(c, s), Delims)

\* the members of a set of positions, ascending
RECURSIVE Ascending(_)
Ascending(S) ==
    IF S = {} THEN <<>> ELSE <<Min(S)>> \o Ascending(S \ {Min(S)})

Whitespace == {" ", "\t"}

\* the resolutions the claim as written asks for: one per line that is not
\* blank and no comment, with its first whitespace-delimited token
ClaimedRequests(c) ==
    LET at == Ascending({s \in LineStarts(c) :
                            /\ ~CommentAt(c, s)
                            /\ \E i \in s..LineEnd(c, s) : c[i] \notin Whitespace})
    IN  [i \in DOMAIN at |-> FirstTokenAt(c, at[i], Whitespace)]

\* the resolutions of the amended claim: one per non-empty line that is no
\* comment, with the part of the line before its first space
SpaceRequests(c) ==
    LET at == Ascending({s \in LineStarts(c) : ~CommentAt(c, s)})
    IN  [i \in DOMAIN at |-> TokenAt(c, at[i], {" "})]

IsPrefix(p, q) == Len(p) <= Len(q) /\ p = SubSeq(q, 1, Len(p))

\* getStateDiff was called once per expected request, in order, up to the
\* first call that failed, and txData holds what the calls returned, in order
ResolvedInOrder(expected) ==
    /\ IsPrefix(requests, expected)
    /\ Len(responses) = Len(requests)
    /\ \A i \in DOMAIN responses : i < Len(responses) => responses[i].ok
    /\ txData = SelectSeq([i \in DOMAIN responses |-> responses[i].tx],
                          LAMBDA t : t # NoTx)
    /\ (\A i \in DOMAIN responses : responses[i].ok)
          => Len(txData) = Len(responses)
    /\ orderCheck # "none" => requests = expected
    /\ error = "Resolution" => ~responses[Len(responses)].ok

\* C9 as written: blank lines are ignored, lines beginning with # or // are
\* skipped, and every other line is resolved once with its first
\* whitespace-delimited token, in line order.
C9_WhitespaceTokens == ResolvedInOrder(ClaimedRequests(fileContent))

\* C9 (amended): empty lines are ignored, lines beginning with # or // are
\* skipped, and the other lines are resolved in line order, one getStateDiff
\* call each with the part of the line before its first space character
\* (the whole line if it has none, the empty string if it begins with one;
\* a tab does not end the token), up to the first call that fails; txData
\* holds the results in that order.
C9_SpaceTokens == ResolvedInOrder(SpaceRequests(fileContent))

\* an entry with a trailing comment after a space and a second, different
\* entry, both resolved
C9_Witness ==
    /\ orderCheck # "none"
    /\ Len(lines) = 2
    /\ Len(requests) = 2
    /\ requests[1] # <<>>
    /\ Len(lines[1]) > Len(requests[1]) + 1
    /\ requests[2] # requests[1]
    /\ Len(txData) = 2
    /\ txData[1] # txData[2]

====
